---- MODULE Spec2Model ----
(***************************************************************************)
(* PDF-to-Anki (src/script.py): the resumable extraction pipeline.         *)
(*                                                                         *)
(* The state is the artifacts on disk (the ledger file qa_data.json and    *)
(* the deck package OUTPUT.apkg), the document that is read, and the       *)
(* memory of the one process that runs main(): the ledger dictionary       *)
(* qa_data, the deck, and the position of main() with its loop variables.  *)
(* The process can be killed in any state and started again; the disk      *)
(* survives, the memory does not.                                          *)
(*                                                                         *)
(* The text functions main() calls on each part (the chunker               *)
(* break_down_page_into_parts, extract_assistant_responses and the parser  *)
(* extract_questions_and_answers) are modelled on strings of characters    *)
(* and studied on their own inputs, as is add_new_cards_to_deck.           *)
(***************************************************************************)
EXTENDS Integers, Sequences, FiniteSets, TLC

(* ----------------------------- bounds ---------------------------------- *)
\* the longest document: pages 0 .. NumPages - 1
NumPages == 12
\* the most parts break_down_page_into_parts yields for a page of the document
MaxParts == 2
\* the most question/answer pairs parsed out of one model reply
MaxPairs == 2
\* the most pairs the model yields over all runs on one ledger file
MaxLedger == 2
\* the longest record list of a ledger handed to add_new_cards_to_deck alone
MaxRecs == 3
\* the most lines of a reply handed to extract_questions_and_answers alone
MaxLines == 5
\* the most pieces (role markers, pieces of text) of a transcript handed to
\* extract_assistant_responses alone
MaxPieces == 4
\* the longest text handed to break_down_page_into_parts alone
MaxText == 6
\* the largest part_size it is called with
MaxPartSize == 4

(* ------------------------ program constants ---------------------------- *)
\* "last_processed_page": 9 of a fresh ledger
InitialPage == 9
\* "last_anki_card_index": -1 of a fresh ledger
NoCardIndex == -1

VARIABLES
    file,               \* qa_data.json: [state, data]
    apkg,               \* OUTPUT.apkg: "absent" or "written"
    doc,                \* the document: doc[k] = number of parts of page InitialPage + k, 0 = no text
    pc,                 \* position of the process in main()
    ret,                \* which call of save_qa_data is running
    qa_data,            \* main's qa_data dictionary
    deck,               \* the notes of main's genanki.Deck, in order
    new_cards,          \* the last value returned by add_new_cards_to_deck
    start_page,         \* main's start_page
    page_num,           \* main's page_num
    i,                  \* main's i, the 0-based index of the part
    page_has_valid_qa,  \* main's page_has_valid_qa
    all_normal,         \* history: every run so far ended by returning from main
    text,               \* the text argument of the text function that is called on its own
    part_size,          \* the part_size argument of break_down_page_into_parts
    returned            \* what that function returned

vars == <<file, apkg, doc, pc, ret, qa_data, deck, new_cards,
          start_page, page_num, i, page_has_valid_qa, all_normal,
          text, part_size, returned>>

disk == <<file, apkg>>
locals == <<start_page, page_num, i, page_has_valid_qa>>
\* main calls the text functions on values that are not kept in the state:
\* these three change only where such a function is studied on its own
unit == <<text, part_size, returned>>

(* ------------------------------ data ----------------------------------- *)
\* the value of datetime.now().isoformat(): the clock is not modelled, every
\* stamp is the same non-empty text
Now == "now"

\* the dictionary built by load_or_create_qa_file when there is nothing to load
initial_data ==
    [metadata |-> [last_processed_page   |-> InitialPage,
                   total_pages_processed |-> 0,
                   total_questions       |-> 0,
                   last_update           |-> "",
                   last_anki_card_index  |-> NoCardIndex],
     qa_pairs |-> <<>>]

\* qa_data while no process holds a ledger (the name is unbound in the program)
NoLedger == initial_data

\* qa_data.json: a file that does not exist, a file whose JSON text is cut
\* short (json.load raises JSONDecodeError on it), a file whose bytes are not
\* UTF-8 text (the read inside json.load raises UnicodeDecodeError on it), and
\* a file holding the whole text of data
Absent == [state |-> "absent", data |-> NoLedger]
Partial == [state |-> "partial", data |-> NoLedger]
Undecodable == [state |-> "undecodable", data |-> NoLedger]
json_dump(data) == [state |-> "complete", data |-> data]

\* qa_data.json.tmp is written and renamed by save_qa_data and read by
\* nothing: it is not part of the state.  A kill or an error of save_qa_data
\* before os.replace leaves the ledger file as it was.

\* OUTPUT.apkg is written by save_deck and read by nothing: only whether
\* anything was ever written to it (whole, or cut short by a kill or an
\* error) is kept.  When save_deck returns it is the package of deck.

\* the pairs extract_questions_and_answers returns for a reply with n pairs
QuestionText == <<"q1", "q2", "q3", "q4">>
AnswerText == <<"a1", "a2", "a3", "a4">>
qa_pairs_of_reply(n) == [j \in 1..n |-> [question |-> QuestionText[j], answer |-> AnswerText[j]]]

(* ------------------------ str(page_number) ----------------------------- *)
Digit == <<"0", "1", "2", "3", "4", "5", "6", "7", "8", "9">>

RECURSIVE digits(_)
digits(n) == IF n < 10 THEN <<Digit[n + 1]>> ELSE Append(digits(n \div 10), Digit[(n % 10) + 1])

str(n) == IF n < 0 THEN <<"-">> \o digits(-n) ELSE digits(n)

(* ------------------- add_new_cards_to_deck (70-88) --------------------- *)
Max(a, b) == IF a >= b THEN a ELSE b
Min(a, b) == IF a <= b THEN a ELSE b

\* Python's s[start:], with s[0] at position 1 here
slice_from(s, start) ==
    LET lo == IF start < 0 THEN Max(Len(s) + start, 0) ELSE Min(start, Len(s))
    IN  SubSeq(s, lo + 1, Len(s))

\* the genanki.Note built from one pair: question, answer, str(page_number)
Note(qa_pair) == <<qa_pair.question, qa_pair.answer, str(qa_pair.page_number)>>

\* mutant of first_new_index: starts at the last card instead of after it
first_new_index_at_last(qa) == qa.metadata.last_anki_card_index

\* last_processed_index + 1: where the slice and the enumeration start
first_new_index(qa) == qa.metadata.last_anki_card_index + 1

\* mutant of set_last_anki_card_index: records the index after the card's
set_last_anki_card_index_next(qa, idx) ==
    [qa EXCEPT !.metadata.last_anki_card_index = idx + 1]

\* qa_data["metadata"]["last_anki_card_index"] = i
set_last_anki_card_index(qa, idx) ==
    [qa EXCEPT !.metadata.last_anki_card_index = idx]

\* the for loop over enumerate(qa_pairs[last + 1:], start=last + 1): rest is
\* what is left of the slice, idx the enumeration's i, added new_cards_added.
\* fuel is the number of notes that can still be built before genanki raises.
RECURSIVE add_loop(_, _, _, _, _, _)
add_loop(dk, qa, rest, idx, added, fuel) ==
    IF rest = <<>>
    THEN [deck |-> dk, qa_data |-> qa, new_cards |-> added, raised |-> FALSE]
    ELSE IF fuel = 0
    THEN [deck |-> dk, qa_data |-> qa, new_cards |-> added, raised |-> TRUE]
    ELSE add_loop(Append(dk, Note(Head(rest))), set_last_anki_card_index(qa, idx),
                  Tail(rest), idx + 1, added + 1, fuel - 1)

\* mutant of backlog: the slice starts at the first pair, not after the watermark
backlog_whole_ledger(qa) == qa.qa_pairs

\* the pairs the call has to turn into notes
backlog(qa) == slice_from(qa.qa_pairs, first_new_index(qa))

\* add_new_cards_to_deck(deck, qa_data), raising after fuel notes if there are more
add_new_cards_to_deck(dk, qa, fuel) ==
    add_loop(dk, qa, backlog(qa), first_new_index(qa), 0, fuel)

(* --------------------------- the document ------------------------------ *)
\* pages 0 .. InitialPage are never extracted (start_page > InitialPage in
\* every run), so their text is left out of the state: doc holds the pages
\* after them, and a document has InitialPage + 1 to NumPages pages
Docs ==
    UNION { [1..n -> 0..MaxParts] : n \in 0..(NumPages - InitialPage - 1) }

\* total_pages = len(pdf.pages)
total_pages == InitialPage + 1 + Len(doc)
\* len(break_down_page_into_parts(page.extract_text())), 0 when the text is empty
parts_of(p) == doc[p - InitialPage]

(* ------------------------------- Init ---------------------------------- *)
Stopped == {"off", "killed", "raised", "done"}

\* before the first run there is no ledger file, or a file that is not this
\* program's: the program writes UTF-8 text only
Init ==
    /\ file \in {Absent, Undecodable}
    /\ apkg = "absent"
    /\ doc \in Docs
    /\ pc = "off"
    /\ ret = "none"
    /\ qa_data = NoLedger
    /\ deck = <<>>
    /\ new_cards = 0
    /\ start_page = 0
    /\ page_num = 0
    /\ i = 0
    /\ page_has_valid_qa = FALSE
    /\ all_normal = TRUE
    /\ text = <<>>
    /\ part_size = 0
    /\ returned = <<>>

\* the locals of a main() that has not reached its page loop
fresh_locals ==
    /\ start_page' = 0
    /\ page_num' = 0
    /\ i' = 0
    /\ page_has_valid_qa' = FALSE

(* ------------------- load_or_create_qa_file (38-61) -------------------- *)
\* the file exists and json.load returns its content
LoadExisting ==
    /\ pc \in Stopped
    /\ file.state = "complete"
    /\ qa_data' = file.data
    /\ pc' = "sync"
    /\ deck' = <<>>
    /\ new_cards' = 0
    /\ ret' = "none"
    /\ fresh_locals
    /\ UNCHANGED <<disk, doc, unit, all_normal>>

\* no file, or json.load raises JSONDecodeError: open(filename, 'w') truncates
LoadOpenForWrite ==
    /\ pc \in Stopped
    /\ file.state \in {"absent", "partial"}
    /\ file' = Partial
    /\ pc' = "init_dump"
    /\ qa_data' = NoLedger
    /\ deck' = <<>>
    /\ new_cards' = 0
    /\ ret' = "none"
    /\ fresh_locals
    /\ UNCHANGED <<apkg, doc, unit, all_normal>>

\* json.dump(initial_data, f), close, return initial_data
LoadDumpInitial ==
    /\ pc = "init_dump"
    /\ file' = json_dump(initial_data)
    /\ qa_data' = initial_data
    /\ pc' = "sync"
    /\ UNCHANGED <<apkg, doc, unit, all_normal, ret, deck, new_cards, locals>>

(* --------------------------- main (191-285) ---------------------------- *)
\* what a process leaves behind when an exception ends it
raised ==
    /\ pc' = "raised"
    /\ ret' = "none"
    /\ qa_data' = NoLedger
    /\ deck' = <<>>
    /\ new_cards' = 0
    /\ all_normal' = FALSE
    /\ fresh_locals

\* line 192 with a file that is not UTF-8 text: json.load raises
\* UnicodeDecodeError, line 44 catches JSONDecodeError only, and the call is
\* outside main's try: the exception leaves main
LoadDecodeError ==
    /\ pc \in Stopped
    /\ file.state = "undecodable"
    /\ raised
    /\ UNCHANGED <<disk, doc, unit>>

\* the process ends: normally ("done") or by an exception that leaves main
\* ("raised").  Its memory is gone; of a normal end the ledger whose counters
\* the final statistics print (281-285) is kept.
end_of_run(status, qa) ==
    /\ pc' = status
    /\ ret' = "none"
    /\ qa_data' = IF status = "done" THEN qa ELSE NoLedger
    /\ deck' = <<>>
    /\ new_cards' = 0
    /\ all_normal' = (all_normal /\ status = "done")
    /\ fresh_locals

\* deck = create_or_load_deck(); new_cards = add_new_cards_to_deck(deck, qa_data)
SyncDeck ==
    /\ pc = "sync"
    /\ LET r == add_new_cards_to_deck(<<>>, qa_data, Len(backlog(qa_data)))
       IN  /\ deck' = r.deck
           /\ qa_data' = r.qa_data
           /\ new_cards' = r.new_cards
           /\ pc' = IF r.new_cards > 0 THEN "resume_flush" ELSE "resume"
    /\ UNCHANGED <<disk, doc, unit, all_normal, ret, locals>>

\* the same call raising part of the way: it is outside main's try, main ends
SyncDeckError ==
    /\ pc = "sync"
    /\ \E fuel \in 0..(Len(backlog(qa_data)) - 1) :
         add_new_cards_to_deck(<<>>, qa_data, fuel).raised
    /\ end_of_run("raised", qa_data)
    /\ UNCHANGED <<disk, doc, unit>>

\* save_deck(deck) at line 199
ResumeFlush ==
    /\ pc = "resume_flush"
    /\ apkg' = "written"
    /\ pc' = "resume"
    /\ UNCHANGED <<file, doc, unit, all_normal, ret, qa_data, deck, new_cards, locals>>

\* write_to_file raising at line 199: outside main's try, main ends
ResumeFlushError ==
    /\ pc = "resume_flush"
    /\ apkg' \in {apkg, "written"}
    /\ end_of_run("raised", qa_data)
    /\ UNCHANGED <<file, doc, unit>>

\* mutant of first_page: the run starts at the last processed page again
first_page_at_last(qa) == qa.metadata.last_processed_page

\* start_page = qa_data["metadata"]["last_processed_page"] + 1
first_page(qa) == qa.metadata.last_processed_page + 1

\* start_page >= total_pages: "All pages have been processed!", return
ResumeDone ==
    /\ pc = "resume"
    /\ first_page(qa_data) >= total_pages
    /\ end_of_run("done", qa_data)
    /\ UNCHANGED <<disk, doc, unit>>

\* the page loop starts at start_page
ResumeEnterLoop ==
    /\ pc = "resume"
    /\ first_page(qa_data) < total_pages
    /\ start_page' = first_page(qa_data)
    /\ page_num' = first_page(qa_data)
    /\ pc' = "page"
    /\ UNCHANGED <<disk, doc, unit, all_normal, ret, qa_data, deck, new_cards, i, page_has_valid_qa>>

\* the except clause of main (275-278): save_qa_data(qa_data), then raise
fatal ==
    /\ pc' = "save"
    /\ ret' = "fatal"

\* pdfplumber.open raises
DocumentError ==
    /\ pc = "resume"
    /\ start_page' = first_page(qa_data)
    /\ fatal
    /\ UNCHANGED <<disk, doc, unit, all_normal, qa_data, deck, new_cards, page_num, i, page_has_valid_qa>>

\* the for loop over pdf.pages[start_page:] moves on, or is exhausted and main
\* ends; qa is the ledger in memory at that moment
next_page(qa) ==
    IF page_num + 1 < total_pages
    THEN /\ pc' = "page"
         /\ page_num' = page_num + 1
         /\ ret' = "none"
         /\ qa_data' = qa
         /\ UNCHANGED <<deck, new_cards, start_page, i, page_has_valid_qa, all_normal>>
    ELSE end_of_run("done", qa)

\* mutant of PageSkipEmpty: the skipped page is recorded as processed
PageSkipEmpty_records_page ==
    /\ pc = "page"
    /\ parts_of(page_num) = 0
    /\ next_page([qa_data EXCEPT !.metadata.last_processed_page = page_num])
    /\ UNCHANGED <<disk, doc, unit>>

\* if not text: continue
PageSkipEmpty ==
    /\ pc = "page"
    /\ parts_of(page_num) = 0
    /\ next_page(qa_data)
    /\ UNCHANGED <<disk, doc, unit>>

\* parts = break_down_page_into_parts(text); page_has_valid_qa = False
PageEnter ==
    /\ pc = "page"
    /\ parts_of(page_num) > 0
    /\ i' = 0
    /\ page_has_valid_qa' = FALSE
    /\ pc' = "part"
    /\ UNCHANGED <<disk, doc, unit, all_normal, ret, qa_data, deck, new_cards, start_page, page_num>>

\* page.extract_text() raises
PageError ==
    /\ pc = "page"
    /\ fatal
    /\ UNCHANGED <<disk, doc, unit, all_normal, qa_data, deck, new_cards, locals>>

\* the for loop over parts moves on (also by the continue of line 265), or is exhausted
next_part ==
    IF i + 1 < parts_of(page_num)
    THEN /\ pc' = "part"
         /\ i' = i + 1
         /\ ret' = "none"
         /\ UNCHANGED <<start_page, page_num, page_has_valid_qa>>
    ELSE /\ pc' = "page_end"
         /\ ret' = "none"
         /\ UNCHANGED locals

\* mutant of PartModelError: the exception is not caught at 263 and reaches 275
PartModelError_uncaught ==
    /\ pc = "part"
    /\ fatal
    /\ UNCHANGED <<disk, doc, unit, all_normal, qa_data, deck, new_cards, locals>>

\* generate_questions, extract_assistant_responses or the parser raises
PartModelError ==
    /\ pc = "part"
    /\ next_part
    /\ UNCHANGED <<disk, doc, unit, all_normal, qa_data, deck, new_cards>>

\* no assistant turn in the transcript, or no pair in it
PartNoPairs ==
    /\ pc = "part"
    /\ next_part
    /\ UNCHANGED <<disk, doc, unit, all_normal, qa_data, deck, new_cards>>

\* lines 236-239: stamp each pair and extend qa_data["qa_pairs"] by it
append_pairs(qa, pairs, page, part) ==
    [qa EXCEPT !.qa_pairs = @ \o [j \in 1..Len(pairs) |->
        [question    |-> pairs[j].question,
         answer      |-> pairs[j].answer,
         page_number |-> page,
         part_number |-> part + 1]]]

\* mutant of update_metadata: the page is not recorded with the part
update_metadata_no_page(qa, page, pairs) ==
    [qa EXCEPT !.metadata.total_questions = Len(qa.qa_pairs)]

\* mutant of update_metadata: counts the pairs of the reply, not of the ledger
update_metadata_reply_count(qa, page, pairs) ==
    [qa EXCEPT !.metadata.last_processed_page = page,
               !.metadata.total_questions = Len(pairs)]

\* lines 245-246
update_metadata(qa, page, pairs) ==
    [qa EXCEPT !.metadata.last_processed_page = page,
               !.metadata.total_questions = Len(qa.qa_pairs)]

\* lines 234-249 on a reply with n pairs, up to the return of add_new_cards_to_deck
after_pairs(n, fuel) ==
    LET pairs == qa_pairs_of_reply(n)
        qa1 == append_pairs(qa_data, pairs, page_num, i)
        qa2 == update_metadata(qa1, page_num, pairs)
    IN  add_new_cards_to_deck(deck, qa2, fuel)

\* a reply with n >= 1 pairs: ledger and deck are updated in memory
PartPairs ==
    /\ pc = "part"
    /\ \E n \in 1..MaxPairs :
         LET r == after_pairs(n, n + Len(backlog(qa_data)))
         IN  /\ Len(qa_data.qa_pairs) + n <= MaxLedger
             /\ qa_data' = r.qa_data
             /\ deck' = r.deck
             /\ new_cards' = r.new_cards
             /\ IF r.new_cards > 0
                THEN pc' = "part_flush" /\ ret' = "none"
                ELSE pc' = "save" /\ ret' = "part"
    /\ page_has_valid_qa' = TRUE
    /\ UNCHANGED <<disk, doc, unit, all_normal, start_page, page_num, i>>

\* the same, with add_new_cards_to_deck raising after fuel notes: caught at 263
PartPairsSyncError ==
    /\ pc = "part"
    /\ \E n \in 1..MaxPairs : \E fuel \in 0..(n + Len(backlog(qa_data)) - 1) :
         LET r == after_pairs(n, fuel)
         IN  /\ Len(qa_data.qa_pairs) + n <= MaxLedger
             /\ r.raised
             /\ qa_data' = r.qa_data
             /\ deck' = r.deck
    /\ IF i + 1 < parts_of(page_num)
       THEN pc' = "part" /\ i' = i + 1
       ELSE pc' = "page_end" /\ i' = i
    /\ page_has_valid_qa' = TRUE
    /\ ret' = "none"
    /\ UNCHANGED <<disk, doc, unit, all_normal, new_cards, start_page, page_num>>

\* save_deck(deck) at line 252, then save_qa_data is called at 255
PartFlush ==
    /\ pc = "part_flush"
    /\ apkg' = "written"
    /\ pc' = "save"
    /\ ret' = "part"
    /\ UNCHANGED <<file, doc, unit, all_normal, qa_data, deck, new_cards, locals>>

\* write_to_file raising at line 252: caught at 263
PartFlushError ==
    /\ pc = "part_flush"
    /\ apkg' \in {apkg, "written"}
    /\ next_part
    /\ UNCHANGED <<file, doc, unit, all_normal, qa_data, deck, new_cards>>

\* mutant of set_last_processed_page: records the page before the current one
set_last_processed_page_previous(qa, page) ==
    [qa EXCEPT !.metadata.last_processed_page = page - 1]

\* qa_data["metadata"]["last_processed_page"] = page_num (line 272)
set_last_processed_page(qa, page) ==
    [qa EXCEPT !.metadata.last_processed_page = page]

\* mutant of PageEnd: line 272 is under the if of line 267, so that a page
\* without pairs is not recorded
PageEnd_uncounted_page_not_recorded ==
    /\ pc = "page_end"
    /\ IF page_has_valid_qa
       THEN /\ qa_data' = [qa_data EXCEPT !.metadata.total_pages_processed = @ + 1]
            /\ ret' = "page_count"
       ELSE /\ qa_data' = qa_data
            /\ ret' = "page"
    /\ pc' = "save"
    /\ UNCHANGED <<disk, doc, unit, all_normal, deck, new_cards, locals>>

\* lines 267-273, up to the first save_qa_data that is called
PageEnd ==
    /\ pc = "page_end"
    /\ IF page_has_valid_qa
       THEN /\ qa_data' = [qa_data EXCEPT !.metadata.total_pages_processed = @ + 1]
            /\ ret' = "page_count"
       ELSE /\ qa_data' = set_last_processed_page(qa_data, page_num)
            /\ ret' = "page"
    /\ pc' = "save"
    /\ UNCHANGED <<disk, doc, unit, all_normal, deck, new_cards, locals>>

(* ------------------------ save_qa_data (180-189) ----------------------- *)
\* data["metadata"]["last_update"] = now
stamp(qa) == [qa EXCEPT !.metadata.last_update = Now]

\* lines 183-189 returning normally: the stamp, the temporary file written
\* and closed, and os.replace, which puts its text at the ledger path at once
replace_file ==
    /\ pc = "save"
    /\ file' = json_dump(stamp(qa_data))
    /\ UNCHANGED <<apkg, doc, unit>>

\* line 255 returns: the part is done
SavedPart ==
    /\ replace_file
    /\ ret = "part"
    /\ qa_data' = stamp(qa_data)
    /\ next_part
    /\ UNCHANGED <<deck, new_cards, all_normal>>

\* line 269 returns: line 272, then save_qa_data is called at 273
SavedPageCount ==
    /\ replace_file
    /\ ret = "page_count"
    /\ qa_data' = set_last_processed_page(stamp(qa_data), page_num)
    /\ ret' = "page"
    /\ pc' = "save"
    /\ UNCHANGED <<deck, new_cards, locals, all_normal>>

\* line 273 returns: the page is done
SavedPage ==
    /\ replace_file
    /\ ret = "page"
    /\ next_page(stamp(qa_data))

\* line 277 returns: raise
SavedFatal ==
    /\ replace_file
    /\ ret = "fatal"
    /\ end_of_run("raised", qa_data)

\* json.dump raises (the disk is full) with the temporary file cut short
write_error ==
    /\ pc = "save"
    /\ UNCHANGED <<disk, doc, unit>>

\* save_qa_data raises at line 255: caught at 263
SaveErrorPart ==
    /\ write_error
    /\ ret = "part"
    /\ qa_data' = stamp(qa_data)
    /\ next_part
    /\ UNCHANGED <<all_normal, deck, new_cards>>

\* save_qa_data raises at line 269 or 273: caught at 275
SaveErrorPage ==
    /\ write_error
    /\ ret \in {"page_count", "page"}
    /\ qa_data' = stamp(qa_data)
    /\ fatal
    /\ UNCHANGED <<all_normal, deck, new_cards, locals>>

\* save_qa_data raises at line 277: the exception leaves main
SaveErrorFatal ==
    /\ write_error
    /\ ret = "fatal"
    /\ end_of_run("raised", qa_data)

(* ------------------------------ the kill ------------------------------- *)
\* the process is killed: its memory is gone
killed ==
    /\ pc \notin Stopped
    /\ pc' = "killed"
    /\ ret' = "none"
    /\ qa_data' = NoLedger
    /\ deck' = <<>>
    /\ new_cards' = 0
    /\ all_normal' = FALSE
    /\ fresh_locals
    /\ UNCHANGED <<doc, unit, unit>>

\* killed between two writes, or inside the writing of the temporary file:
\* the ledger file and the package stay as they are
Kill ==
    /\ killed
    /\ UNCHANGED disk

\* killed inside write_to_file of save_deck: the package is cut short
KillInFlush ==
    /\ killed
    /\ pc \in {"resume_flush", "part_flush"}
    /\ apkg' = "written"
    /\ UNCHANGED file

Next ==
    \/ LoadExisting
    \/ LoadDecodeError
    \/ LoadOpenForWrite
    \/ LoadDumpInitial
    \/ SyncDeck
    \/ SyncDeckError
    \/ ResumeFlush
    \/ ResumeFlushError
    \/ ResumeDone
    \/ ResumeEnterLoop
    \/ DocumentError
    \/ PageSkipEmpty
    \/ PageEnter
    \/ PageError
    \/ PartModelError
    \/ PartNoPairs
    \/ PartPairs
    \/ PartPairsSyncError
    \/ PartFlush
    \/ PartFlushError
    \/ PageEnd
    \/ SavedPart
    \/ SavedPageCount
    \/ SavedPage
    \/ SavedFatal
    \/ SaveErrorPart
    \/ SaveErrorPage
    \/ SaveErrorFatal
    \/ Kill
    \/ KillInFlush

Spec == Init /\ [][Next]_vars

(* ------------- add_new_cards_to_deck on its own ledgers ---------------- *)
\* the pairs of the ledgers the synchronizer is applied to
SamplePairs ==
    { [question |-> QuestionText[j], answer |-> AnswerText[j],
       page_number |-> p, part_number |-> 1] : j \in 1..2, p \in {InitialPage + 1, 100} }

SampleLists == UNION { [1..n -> SamplePairs] : n \in 0..MaxRecs }

\* every ledger with a watermark in -1 .. len - 1 over the sample lists
SampleLedgers ==
    { [metadata |-> [last_processed_page   |-> InitialPage,
                     total_pages_processed |-> 0,
                     total_questions       |-> Len(l),
                     last_update           |-> "",
                     last_anki_card_index  |-> w],
       qa_pairs |-> l] : l \in SampleLists, w \in NoCardIndex..(MaxRecs - 1) }

InitMaterialize ==
    /\ qa_data \in { qa \in SampleLedgers : qa.metadata.last_anki_card_index < Len(qa.qa_pairs) }
    /\ deck \in {<<>>, <<<<"q0", "a0", str(0)>>>>}
    /\ new_cards = 0
    /\ pc = "materialize"
    /\ file = Absent
    /\ apkg = "absent"
    /\ doc = <<>>
    /\ ret = "none"
    /\ start_page = 0
    /\ page_num = 0
    /\ i = 0
    /\ page_has_valid_qa = FALSE
    /\ all_normal = TRUE
    /\ text = <<>>
    /\ part_size = 0
    /\ returned = <<>>

\* new_cards = add_new_cards_to_deck(deck, qa_data), returning normally
MaterializeCall ==
    /\ pc \in {"materialize", "materialized", "rematerialized"}
    /\ LET r == add_new_cards_to_deck(deck, qa_data, Len(backlog(qa_data)))
       IN  /\ deck' = r.deck
           /\ qa_data' = r.qa_data
           /\ new_cards' = r.new_cards
    /\ pc' = IF pc = "materialize" THEN "materialized" ELSE "rematerialized"
    /\ UNCHANGED <<disk, doc, unit, all_normal, ret, locals>>

\* a record is appended to the ledger between two calls
MaterializeAppend ==
    /\ pc \in {"materialize", "materialized", "rematerialized"}
    /\ Len(qa_data.qa_pairs) < MaxRecs
    /\ \E r \in SamplePairs :
         qa_data' = [qa_data EXCEPT !.qa_pairs = Append(@, r),
                                    !.metadata.total_questions = @ + 1]
    /\ pc' = "materialize"
    /\ UNCHANGED <<disk, doc, unit, all_normal, ret, deck, new_cards, locals>>

NextMaterialize ==
    \/ MaterializeCall
    \/ MaterializeAppend

SpecMaterialize == InitMaterialize /\ [][NextMaterialize]_vars

(* ----------------------- Python str and re ----------------------------- *)
\* a str is the sequence of its characters; None is <<>> and a value v that
\* may be None is <<v>>
None == <<>>
Some(v) == <<v>>
\* bool(o) of an optional str: neither None nor ""
truthy(o) == o # None /\ o[1] # <<>>

\* the characters str.strip() removes and \s matches
Whitespace == {" ", "\t", "\n", "\r"}
\* the characters \d matches
Digits == {"0", "1", "2", "3", "4", "5", "6", "7", "8", "9"}

UpperCase == <<"A", "B", "C", "D", "E", "F", "G", "H", "I", "J", "K", "L", "M",
               "N", "O", "P", "Q", "R", "S", "T", "U", "V", "W", "X", "Y", "Z">>
LowerCase == <<"a", "b", "c", "d", "e", "f", "g", "h", "i", "j", "k", "l", "m",
               "n", "o", "p", "q", "r", "s", "t", "u", "v", "w", "x", "y", "z">>
\* the case folding of re.IGNORECASE on one character
lower(c) ==
    IF \E k \in 1..26 : UpperCase[k] = c
    THEN LowerCase[CHOOSE k \in 1..26 : UpperCase[k] = c]
    ELSE c

\* s with its leading characters of class removed
RECURSIVE skip(_, _)
skip(s, class) == IF s # <<>> /\ Head(s) \in class THEN skip(Tail(s), class) ELSE s

RECURSIVE rstrip(_)
rstrip(s) ==
    IF s # <<>> /\ s[Len(s)] \in Whitespace THEN rstrip(SubSeq(s, 1, Len(s) - 1)) ELSE s

\* s.strip()
strip(s) == rstrip(skip(s, Whitespace))

\* s.startswith(p)
startswith(s, p) == Len(s) >= Len(p) /\ SubSeq(s, 1, Len(p)) = p

\* s.split(sep) for a non-empty sep; cur is the piece collected so far
RECURSIVE split_from(_, _, _)
split_from(s, sep, cur) ==
    IF s = <<>> THEN <<cur>>
    ELSE IF startswith(s, sep)
    THEN <<cur>> \o split_from(SubSeq(s, Len(sep) + 1, Len(s)), sep, <<>>)
    ELSE split_from(Tail(s), sep, Append(cur, Head(s)))

split(s, sep) == split_from(s, sep, <<>>)

\* sep.join(pieces)
RECURSIVE join(_, _)
join(pieces, sep) ==
    IF pieces = <<>> THEN <<>>
    ELSE IF Len(pieces) = 1 THEN pieces[1]
    ELSE pieces[1] \o sep \o join(Tail(pieces), sep)

(* ------------- extract_questions_and_answers (134-178) ----------------- *)
\* the optional ":" of the patterns
skip_colon(s) == IF s # <<>> /\ Head(s) = ":" THEN Tail(s) ELSE s

\* re.match(r'^(?:WORD(?:\s*\d*)?:?\s*)(.*?)$', line, re.IGNORECASE) on a
\* line without "\n": None, or group(1).  Every part of the prefix is greedy
\* and (.*?)$ takes whatever is left, so nothing is given back.
marker_match(word, line) ==
    IF Len(line) >= Len(word) /\ [k \in 1..Len(word) |-> lower(line[k])] = word
    THEN Some(skip(skip_colon(skip(skip(SubSeq(line, Len(word) + 1, Len(line)),
                                        Whitespace), Digits)), Whitespace))
    ELSE None

question_match(line) == marker_match(<<"q", "u", "e", "s", "t", "i", "o", "n">>, line)
answer_match(line) == marker_match(<<"a", "n", "s", "w", "e", "r">>, line)

\* the dictionary appended at 156-159 and 173-176
qa_pair_of(current_question, current_answer) ==
    [question |-> strip(current_question[1]), answer |-> strip(current_answer[1])]

\* lines 155-159 and 172-176: the pending pair is kept when both are truthy
emit(qa_pairs, current_question, current_answer) ==
    IF truthy(current_question) /\ truthy(current_answer)
    THEN Append(qa_pairs, qa_pair_of(current_question, current_answer))
    ELSE qa_pairs

\* the for loop of line 148 and the final append of 172-176
RECURSIVE qa_loop(_, _, _, _)
qa_loop(lines, current_question, current_answer, qa_pairs) ==
    IF lines = <<>>
    THEN emit(qa_pairs, current_question, current_answer)
    ELSE LET line == strip(Head(lines))
             rest == Tail(lines)
         IN  IF line = <<>>
             THEN qa_loop(rest, current_question, current_answer, qa_pairs)
             ELSE IF question_match(line) # None
             THEN qa_loop(rest, question_match(line), None,
                          emit(qa_pairs, current_question, current_answer))
             ELSE IF answer_match(line) # None
             THEN qa_loop(rest, current_question, answer_match(line), qa_pairs)
             ELSE IF current_answer # None
             THEN qa_loop(rest, current_question,
                          Some(current_answer[1] \o <<" ">> \o line), qa_pairs)
             ELSE IF truthy(current_question) /\ ~truthy(current_answer)
             THEN qa_loop(rest, current_question, Some(line), qa_pairs)
             ELSE qa_loop(rest, current_question, current_answer, qa_pairs)

\* extract_questions_and_answers(text)["qa_pairs"]
extract_questions_and_answers(t) ==
    IF t = <<>> THEN <<>> ELSE qa_loop(split(t, <<"\n">>), None, None, <<>>)

\* the lines the replies are made of
LineQuestion1 == <<"Q", "u", "e", "s", "t", "i", "o", "n", " ", "1">>
LineAnswer1 == <<"A", "n", "s", "w", "e", "r", " ", "1">>
LineWhat == <<"W", "h", "a", "t", " ", "i", "s", " ", "H", "2", "O", "?">>
LineWater == <<"W", "a", "t", "e", "r">>
LineCompound == <<"I", "t", " ", "i", "s", " ", "a", " ", "c", "o", "m", "p", "o", "u", "n", "d", ".">>
LineQuestionInline == <<"q", "u", "e", "s", "t", "i", "o", "n", " ", "2", ":", " ", "W", "h", "y", "?">>
LineAnswerInline == <<"A", "N", "S", "W", "E", "R", ":", "B", "e", "c", "a", "u", "s", "e">>
LineBlank == <<" ">>

PlainLines == {LineWhat, LineWater, LineCompound}
ReplyLines ==
    PlainLines \cup {LineQuestion1, LineAnswer1, LineQuestionInline, LineAnswerInline, LineBlank}

\* every reply of at most max of these lines
Replies(max) == { join(ls, <<"\n">>) : ls \in UNION { [1..n -> ReplyLines] : n \in 0..max } }

InitParse ==
    /\ text \in Replies(MaxLines)
    /\ part_size = 0
    /\ returned = <<>>
    /\ pc = "parse"
    /\ file = Absent
    /\ apkg = "absent"
    /\ doc = <<>>
    /\ ret = "none"
    /\ qa_data = NoLedger
    /\ deck = <<>>
    /\ new_cards = 0
    /\ start_page = 0
    /\ page_num = 0
    /\ i = 0
    /\ page_has_valid_qa = FALSE
    /\ all_normal = TRUE

\* qa_dict = extract_questions_and_answers(response)
ParseCall ==
    /\ pc = "parse"
    /\ returned' = extract_questions_and_answers(text)
    /\ pc' = "parsed"
    /\ UNCHANGED <<disk, doc, ret, qa_data, deck, new_cards, locals, all_normal, text, part_size>>

NextParse == ParseCall

SpecParse == InitParse /\ [][NextParse]_vars

(* --------------- extract_assistant_responses (123-132) ----------------- *)
AssistantMarker == <<"<", "|", "a", "s", "s", "i", "s", "t", "a", "n", "t", "|", ">">>
SystemMarker == <<"<", "|", "s", "y", "s", "t", "e", "m", "|", ">">>
UserMarker == <<"<", "|", "u", "s", "e", "r", "|", ">">>

\* (?=<\|system\|>|<\|user\|>|$) on what is left of the string: without
\* re.MULTILINE, $ is the end of the string or the place before a last "\n"
lookahead(rest) ==
    \/ startswith(rest, SystemMarker)
    \/ startswith(rest, UserMarker)
    \/ rest = <<>>
    \/ rest = <<"\n">>

\* (.*?) with re.DOTALL followed by the lookahead: the shortest span, and
\* what is left of the string after it
RECURSIVE lazy_span(_, _)
lazy_span(rest, span) ==
    IF lookahead(rest)
    THEN [group |-> span, rest |-> rest]
    ELSE lazy_span(Tail(rest), Append(span, Head(rest)))

\* re.findall(assistant_pattern, text, re.DOTALL): group(1) of the matches
\* found from left to right, each search starting where the last match ended
RECURSIVE findall(_)
findall(s) ==
    IF s = <<>> THEN <<>>
    ELSE IF startswith(s, AssistantMarker)
    THEN LET m == lazy_span(SubSeq(s, Len(AssistantMarker) + 1, Len(s)), <<>>)
         IN  <<m.group>> \o findall(m.rest)
    ELSE findall(Tail(s))

\* [response.strip() for response in matches if response.strip()]
cleaned_responses(matches) ==
    SelectSeq([k \in 1..Len(matches) |-> strip(matches[k])], LAMBDA r : r # <<>>)

\* extract_assistant_responses(text)
extract_assistant_responses(t) ==
    IF cleaned_responses(findall(t)) # <<>>
    THEN Some(cleaned_responses(findall(t))[1])
    ELSE None

\* the pieces the transcripts are made of
TranscriptPieces ==
    {AssistantMarker, SystemMarker, UserMarker, <<"A">>, <<"B", " ">>, <<"\n">>}

\* every transcript of at most max of them
Transcripts(max) ==
    { join(ps, <<>>) : ps \in UNION { [1..n -> TranscriptPieces] : n \in 0..max } }

InitTurn ==
    /\ text \in Transcripts(MaxPieces)
    /\ part_size = 0
    /\ returned = <<>>
    /\ pc = "extract"
    /\ file = Absent
    /\ apkg = "absent"
    /\ doc = <<>>
    /\ ret = "none"
    /\ qa_data = NoLedger
    /\ deck = <<>>
    /\ new_cards = 0
    /\ start_page = 0
    /\ page_num = 0
    /\ i = 0
    /\ page_has_valid_qa = FALSE
    /\ all_normal = TRUE

\* response = extract_assistant_responses(result)
TurnCall ==
    /\ pc = "extract"
    /\ returned' = extract_assistant_responses(text)
    /\ pc' = "extracted"
    /\ UNCHANGED <<disk, doc, ret, qa_data, deck, new_cards, locals, all_normal, text, part_size>>

NextTurn == TurnCall

SpecTurn == InitTurn /\ [][NextTurn]_vars

(* ---------------- break_down_page_into_parts (110-121) ------------------ *)
\* the ". " the text is split on and each sentence is followed by
Delimiter == <<".", " ">>

\* the for loop of line 113 and the final append of 119-120
RECURSIVE parts_loop(_, _, _, _)
parts_loop(sentences, current_part, parts, size) ==
    IF sentences = <<>>
    THEN IF current_part # <<>> THEN Append(parts, strip(current_part)) ELSE parts
    ELSE LET sentence == Head(sentences)
         IN  IF Len(current_part) + Len(sentence) + 1 <= size
             THEN parts_loop(Tail(sentences), current_part \o sentence \o Delimiter, parts, size)
             ELSE parts_loop(Tail(sentences), sentence \o Delimiter,
                             Append(parts, strip(current_part)), size)

\* break_down_page_into_parts(text, part_size)
break_down_page_into_parts(t, size) == parts_loop(split(t, Delimiter), <<>>, <<>>, size)

\* every text of at most max characters out of a letter, "." and " "
PageTexts(max) == UNION { [1..n -> {"a", ".", " "}] : n \in 0..max }

InitChunk ==
    /\ text \in PageTexts(MaxText)
    /\ part_size \in 1..MaxPartSize
    /\ returned = <<>>
    /\ pc = "chunk"
    /\ file = Absent
    /\ apkg = "absent"
    /\ doc = <<>>
    /\ ret = "none"
    /\ qa_data = NoLedger
    /\ deck = <<>>
    /\ new_cards = 0
    /\ start_page = 0
    /\ page_num = 0
    /\ i = 0
    /\ page_has_valid_qa = FALSE
    /\ all_normal = TRUE

\* parts = break_down_page_into_parts(text, part_size)
ChunkCall ==
    /\ pc = "chunk"
    /\ returned' = break_down_page_into_parts(text, part_size)
    /\ pc' = "chunked"
    /\ UNCHANGED <<disk, doc, ret, qa_data, deck, new_cards, locals, all_normal, text, part_size>>

NextChunk == ChunkCall

SpecChunk == InitChunk /\ [][NextChunk]_vars

(* ============================ the claims =============================== *)
\* the positions of main at which qa_data holds the ledger of the run
Loaded ==
    {"sync", "resume_flush", "resume", "page", "part", "part_flush", "page_end", "save"}

\* a part of page_num is being processed: from before its model call to the
\* return of its save_qa_data
InPart ==
    \/ pc \in {"part", "part_flush"}
    \/ pc = "save" /\ ret = "part"

\* the notes of the pairs 0 .. last_anki_card_index of a ledger, in order
notes_up_to_watermark(qa) ==
    [k \in 1..(qa.metadata.last_anki_card_index + 1) |-> Note(qa.qa_pairs[k])]

watermark_in_range(qa) ==
    /\ NoCardIndex <= qa.metadata.last_anki_card_index
    /\ qa.metadata.last_anki_card_index <= Len(qa.qa_pairs) - 1

\* C1: a kill while a page's parts are being processed loses no part to the
\* resume point: while a part of page p is in flight, the start page a new run
\* would compute from the ledger file is at most p.
C1_ResumePointKeepsParts ==
    InPart => /\ file.state = "complete"
              /\ first_page(file.data) <= page_num

\* C2: whenever the model call of a part is about to start, the ledger file
\* holds every pair the run has in memory, so a kill loses the pairs of the
\* part in flight only.
C2_FileHoldsEarlierParts ==
    pc = "part" => /\ file.state = "complete"
                   /\ file.data.qa_pairs = qa_data.qa_pairs

\* C3: no work is duplicated.  While a run processes part i of page p, the
\* pairs of page p in the ledger file come from the parts before i of this
\* visit of the page (none when the page is entered), and no stamped pair
\* occurs twice in the ledger file.
C3_NoDuplicateWork ==
    /\ pc = "part" =>
         \A k \in 1..Len(file.data.qa_pairs) :
            file.data.qa_pairs[k].page_number = page_num
               => file.data.qa_pairs[k].part_number <= i
    /\ \A a, b \in 1..Len(file.data.qa_pairs) :
          a < b => file.data.qa_pairs[a] # file.data.qa_pairs[b]

\* C3 witness: a run that resumed behind an earlier run's pairs is at a part
C3_Witness ==
    /\ pc = "part"
    /\ start_page > InitialPage + 1
    /\ Len(file.data.qa_pairs) > 0
    /\ Len(qa_data.qa_pairs) > Len(file.data.qa_pairs)

\* C4: after every call of add_new_cards_to_deck, and so at every flush, the
\* deck holds exactly the notes of the pairs with index <= last_anki_card_index.
C4_DeckMatchesWatermark ==
    (pc \in {"resume_flush", "resume", "part_flush"} \/ (pc = "save" /\ ret = "part"))
        => deck = notes_up_to_watermark(qa_data)

\* C5: the ledger file is never observable cut short: it is absent or complete.
C5_LedgerFileNeverPartial == file.state # "partial"

\* C6: every ledger that reaches the ledger file has total_questions equal
\* to the number of its pairs.
C6_PersistedCountMatches ==
    file.state = "complete" =>
        file.data.metadata.total_questions = Len(file.data.qa_pairs)

\* C6 witness: a page boundary has persisted a ledger with pairs of two replies
C6_Witness ==
    /\ file.state = "complete"
    /\ Len(file.data.qa_pairs) >= 2
    /\ file.data.metadata.total_pages_processed >= 1
    /\ file.data.qa_pairs[1].part_number # file.data.qa_pairs[2].part_number

\* C7: -1 <= last_anki_card_index <= len(qa_pairs) - 1, in memory and on disk.
C7_WatermarkInRange ==
    /\ watermark_in_range(qa_data)
    /\ watermark_in_range(file.data)

\* C7 witness: the synchronizer has brought the watermark to the last pair
C7_Witness ==
    /\ pc = "part_flush"
    /\ Len(qa_data.qa_pairs) >= 2
    /\ qa_data.metadata.last_anki_card_index = Len(qa_data.qa_pairs) - 1

\* C8: last_anki_card_index never decreases: no step of a run lowers it, and
\* when every run so far has ended normally the next run starts with a
\* watermark that is not below the one the last run ended with.
C8_WatermarkNeverDecreases ==
    [][/\ (pc \in Loaded /\ pc' \in Loaded \cup {"done"})
            => qa_data'.metadata.last_anki_card_index >= qa_data.metadata.last_anki_card_index
       /\ (pc = "done" /\ all_normal /\ pc' = "sync")
            => qa_data'.metadata.last_anki_card_index >= qa_data.metadata.last_anki_card_index
      ]_vars

\* C9: every last_processed_page written to the ledger file is >= every one
\* written before it: once the file holds a ledger it always holds one, with a
\* last_processed_page that is not below the one it replaces.
C9_LastProcessedPageMonotonic ==
    [][file.state = "complete" =>
          /\ file'.state = "complete"
          /\ file'.data.metadata.last_processed_page >= file.data.metadata.last_processed_page
      ]_vars

\* C9 witness: two pages were completed one after the other
C9_Witness ==
    /\ file.state = "complete"
    /\ file.data.metadata.last_processed_page = InitialPage + 2
    /\ Len(file.data.qa_pairs) > 0

\* C10: a call of add_new_cards_to_deck on a ledger with watermark w adds the
\* notes of the pairs w+1 .. len-1 in order after the notes of the deck and
\* returns their number; a call that follows a call with no pair appended in
\* between returns 0 and leaves deck and watermark as they are.
C10_MaterializeIdempotent ==
    [][pc' \in {"materialized", "rematerialized"} =>
          LET w == qa_data.metadata.last_anki_card_index
              n == Len(qa_data.qa_pairs)
          IN  /\ new_cards' = n - (w + 1)
              /\ deck' = deck \o [k \in 1..(n - (w + 1)) |-> Note(qa_data.qa_pairs[w + 1 + k])]
              /\ qa_data'.qa_pairs = qa_data.qa_pairs
              /\ pc \in {"materialized", "rematerialized"} =>
                    /\ new_cards' = 0
                    /\ deck' = deck
                    /\ qa_data' = qa_data
      ]_vars

\* C10 witness: a second call in a row, after a first one that added notes
C10_Witness ==
    /\ pc = "rematerialized"
    /\ new_cards = 0
    /\ Len(deck) >= 3
    /\ qa_data.metadata.last_anki_card_index = Len(qa_data.qa_pairs) - 1

\* C11: extract_questions_and_answers on a line "Question 1", a plain line
\* with the question, a line "Answer 1" and k >= 1 plain lines returns exactly
\* one pair: that question, and the k lines joined by single spaces.
C11_MarkerOnlyLinesYieldOnePair ==
    pc = "parsed" =>
        \A q \in PlainLines :
            \A as \in UNION { [1..k -> PlainLines] : k \in 1..(MaxLines - 3) } :
                text = join(<<LineQuestion1, q, LineAnswer1>> \o as, <<"\n">>)
                    => returned = <<[question |-> q, answer |-> join(as, <<" ">>)]>>

\* s has p as a substring
contains(s, p) == \E k \in 1..(Len(s) - Len(p) + 1) : SubSeq(s, k, k + Len(p) - 1) = p

RoleMarkers == {AssistantMarker, SystemMarker, UserMarker}

\* the first role marker of the string, or its end, is ahead
marker_or_end_ahead(rest) == rest = <<>> \/ \E m \in RoleMarkers : startswith(rest, m)

\* the text from the start of rest to the next role marker or the end
RECURSIVE span_to_marker(_)
span_to_marker(rest) ==
    IF marker_or_end_ahead(rest) THEN <<>> ELSE <<Head(rest)>> \o span_to_marker(Tail(rest))

\* the trimmed non-empty spans that follow the assistant markers of s, in order
RECURSIVE assistant_spans(_)
assistant_spans(s) ==
    IF s = <<>> THEN <<>>
    ELSE IF startswith(s, AssistantMarker)
    THEN LET span == strip(span_to_marker(SubSeq(s, Len(AssistantMarker) + 1, Len(s))))
         IN  (IF span = <<>> THEN <<>> ELSE <<span>>)
                 \o assistant_spans(SubSeq(s, Len(AssistantMarker) + 1, Len(s)))
    ELSE assistant_spans(Tail(s))

\* C12: extract_assistant_responses returns the trimmed text between the
\* first assistant marker with non-empty content and the next role marker
\* (assistant, system or user) or the end of the string, so what it returns
\* holds no role marker; it returns None when there is no such marker.
C12_TurnEndsAtAnyRoleMarker ==
    pc = "extracted" =>
        /\ returned = (IF assistant_spans(text) = <<>> THEN None ELSE Some(assistant_spans(text)[1]))
        /\ returned # None => \A m \in RoleMarkers : ~contains(returned[1], m)

\* C13: every part break_down_page_into_parts returns has at most part_size
\* characters, except a part that is one single sentence of the text (with
\* the delimiter the function gives it) which is by itself longer than
\* part_size.
C13_PartsWithinLimit ==
    pc = "chunked" =>
        \A k \in 1..Len(returned) :
            \/ Len(returned[k]) <= part_size
            \/ \E j \in 1..Len(split(text, Delimiter)) :
                  /\ Len(split(text, Delimiter)[j]) > part_size
                  /\ returned[k] = strip(split(text, Delimiter)[j] \o Delimiter)

\* C19: break_down_page_into_parts never returns an empty part, also when
\* the first sentence of the text is longer than part_size.
C19_NoEmptyPart ==
    pc = "chunked" => \A k \in 1..Len(returned) : returned[k] # <<>>

\* C14: a run whose loaded ledger has last_processed_page + 1 >= total_pages
\* goes from the resume check to the end of main: its backlog sync adds
\* len(qa_pairs) - (last_anki_card_index + 1) notes to the new deck and
\* appends no pair, and the resume check is followed by the return of line
\* 210 (or by the failure of pdfplumber.open), never by a page or a model call.
C14_ResumeCheckGoesToDone ==
    [][qa_data.metadata.last_processed_page + 1 >= total_pages =>
          /\ (pc = "sync" /\ pc' \in {"resume_flush", "resume"}) =>
                /\ new_cards' = Len(qa_data.qa_pairs) - (qa_data.metadata.last_anki_card_index + 1)
                /\ Len(deck') = new_cards'
                /\ qa_data'.qa_pairs = qa_data.qa_pairs
                /\ qa_data'.metadata.last_processed_page = qa_data.metadata.last_processed_page
          /\ pc = "resume_flush" =>
                /\ pc' \in {"resume", "raised", "killed"}
                /\ pc' = "resume" => qa_data' = qa_data /\ deck' = deck
          /\ pc = "resume" =>
                /\ pc' \in {"done", "save", "killed"}
                /\ pc' = "done" => qa_data' = qa_data /\ disk' = disk
                /\ pc' = "save" => ret' = "fatal" /\ qa_data' = qa_data
      ]_vars

\* C14 witness: a run that loaded two pairs with watermark -1 and a last
\* page at the end of the document has ended at line 210 with both synced
C14_Witness ==
    /\ pc = "done"
    /\ file.state = "complete"
    /\ file.data.metadata.last_processed_page + 1 >= total_pages
    /\ Len(file.data.qa_pairs) = 2
    /\ file.data.metadata.last_anki_card_index = NoCardIndex
    /\ qa_data.metadata.last_anki_card_index = 1
    /\ apkg = "written"

\* C15: nothing that happens inside the processing of one part, an
\* exception of the model call, the parsing, the deck sync, the deck flush
\* or the ledger persist included, ends the page or the run: short of a
\* kill, a part is followed by the next part of the same page, or after the
\* last part by the page end, which sets last_processed_page to the page
\* and persists it.
C15_PartFailureIsIsolated ==
    [][/\ (InPart /\ pc' # "killed") =>
             /\ page_num' = page_num
             /\ \/ InPart' /\ i' = i
                \/ pc' = "part" /\ i' = i + 1 /\ i + 1 < parts_of(page_num)
                \/ pc' = "page_end" /\ i' = i /\ i + 1 = parts_of(page_num)
       /\ (pc = "page_end" /\ pc' # "killed") =>
             /\ pc' = "save"
             /\ ret' \in {"page_count", "page"}
             /\ page_num' = page_num
       /\ (pc = "save" /\ ret = "page_count" /\ pc' = "save" /\ ret' = "page") =>
             /\ page_num' = page_num
             /\ qa_data'.metadata.last_processed_page = page_num
       /\ (pc = "save" /\ ret = "page" /\ pc' \in {"page", "done"}) =>
             /\ file'.state = "complete"
             /\ file'.data.metadata.last_processed_page = page_num
      ]_vars

\* C15 witness: the run is over a page of two parts whose first part put a
\* pair in the ledger and a note in the deck and then failed in save_deck (no
\* package was ever written); the page end has counted and persisted the page
C15_Witness ==
    /\ pc = "done"
    /\ Len(doc) = 1
    /\ doc[1] = 2
    /\ apkg = "absent"
    /\ file.state = "complete"
    /\ file.data.metadata.last_processed_page = InitialPage + 1
    /\ file.data.metadata.total_pages_processed = 1
    /\ file.data.metadata.last_anki_card_index = 0
    /\ Len(file.data.qa_pairs) = 1
    /\ file.data.qa_pairs[1].part_number = 1

\* C16: load_or_create_qa_file on a file that exists and cannot be parsed
\* does not raise: it returns the initial ledger (last_processed_page 9, zero
\* counts, no pairs, last_anki_card_index -1), and the file holds that ledger
\* when it returns.
C16_UnparsableFileIsReplaced ==
    [][/\ (pc \in Stopped /\ file.state \in {"partial", "undecodable"}) => pc' = "init_dump"
       /\ (pc = "init_dump" /\ pc' # "killed") =>
             /\ pc' = "sync"
             /\ qa_data' = initial_data
             /\ file' = json_dump(initial_data)
      ]_vars

\* C17: when the parts of a page have all been handled and none yielded a
\* pair, the page end changes last_processed_page to the page and nothing
\* else of the ledger, and persists that ledger; and no run enters a page
\* that is not after the last_processed_page of the ledger file.
C17_ZeroYieldPageIsNotRetried ==
    [][/\ (pc = "page_end" /\ ~page_has_valid_qa /\ pc' # "killed") =>
             /\ pc' = "save"
             /\ ret' = "page"
             /\ qa_data' = [qa_data EXCEPT !.metadata.last_processed_page = page_num]
       /\ (pc = "save" /\ ret = "page" /\ ~page_has_valid_qa /\ pc' \in {"page", "done"}) =>
             /\ file'.state = "complete"
             /\ file'.data.metadata.last_processed_page = page_num
             /\ file'.data.qa_pairs = qa_data.qa_pairs
             /\ file'.data.metadata.total_questions = qa_data.metadata.total_questions
             /\ file'.data.metadata.total_pages_processed = qa_data.metadata.total_pages_processed
             /\ file'.data.metadata.last_anki_card_index = qa_data.metadata.last_anki_card_index
       /\ pc' = "page" =>
             /\ file'.state = "complete"
             /\ page_num' > file'.data.metadata.last_processed_page
      ]_vars

\* C17 witness: a run has resumed after page 10, a page of two parts that
\* yielded nothing (no pair, no counted page in the ledger)
C17_Witness ==
    /\ pc = "page"
    /\ start_page = InitialPage + 2
    /\ doc[1] = 2
    /\ qa_data.qa_pairs = <<>>
    /\ qa_data.metadata.total_pages_processed = 0
    /\ file.data.metadata.last_processed_page = InitialPage + 1

\* C18: the visit of a page without text changes nothing: the ledger in
\* memory, the ledger file and the package are the same after it, the deck
\* is the same as long as the process lives, and the next thing is the next
\* page or the end of the run, not a model call.
C18_EmptyPageSkipChangesNothing ==
    [][(pc = "page" /\ parts_of(page_num) = 0 /\ pc' \notin {"killed", "save"}) =>
          /\ pc' \in {"page", "done"}
          /\ qa_data' = qa_data
          /\ disk' = disk
          /\ pc' = "page" =>
                /\ page_num' = page_num + 1
                /\ deck' = deck
                /\ new_cards' = new_cards
      ]_vars

\* C18 witness: a run with pairs of page 10 in its ledger has skipped page
\* 11, the last page, and ended with the ledger as page 10 left it
C18_Witness ==
    /\ pc = "done"
    /\ Len(doc) = 2
    /\ doc[2] = 0
    /\ file.state = "complete"
    /\ file.data.metadata.last_processed_page = InitialPage + 1
    /\ Len(file.data.qa_pairs) > 0
    /\ file.data.metadata.last_anki_card_index = Len(file.data.qa_pairs) - 1
    /\ qa_data = file.data
    /\ all_normal

\* C20: when a run that went through the page loop returns from main, the
\* ledger file holds last_processed_page = total_pages - 1, whatever the
\* pages hold, so that the start page of the next run is not below
\* total_pages and that run returns at line 210.
C20_FullRunPersistsLastPage ==
    [][(pc \in {"page", "save"} /\ pc' = "done") =>
          /\ file'.state = "complete"
          /\ file'.data.metadata.last_processed_page = total_pages - 1
          /\ file'.data.metadata.last_processed_page + 1 >= total_pages
      ]_vars

\* C20 as amended: when a run that went through the page loop returns from
\* main and the last page of the document has text, the ledger file holds
\* last_processed_page = total_pages - 1 whatever the other pages hold; and
\* a run that finds that value in the file returns at line 210 (short of a
\* kill or a failure of pdfplumber.open).
C20_FullRunOverTextPersistsLastPage ==
    [][/\ (pc \in {"page", "save"} /\ pc' = "done" /\ doc[Len(doc)] > 0) =>
             /\ file'.state = "complete"
             /\ file'.data.metadata.last_processed_page = total_pages - 1
       /\ (/\ pc = "resume"
           /\ file.state = "complete"
           /\ file.data.metadata.last_processed_page = total_pages - 1
           /\ pc' \notin {"killed", "save"}) => pc' = "done"
      ]_vars

\* C20 witness: every run so far returned from main, the document is a page
\* without text followed by a page with text, the file holds the number of
\* the last page, and a further run is at its resume check
C20_Witness ==
    /\ pc = "resume"
    /\ all_normal
    /\ Len(doc) = 2
    /\ doc[1] = 0
    /\ doc[2] > 0
    /\ file.state = "complete"
    /\ file.data.metadata.last_processed_page = total_pages - 1

====
